---- MODULE Spec2Model ----
(***************************************************************************)
(* A model of the alarm bot in bot.py: the two tables alarms and           *)
(* recurring_alarms, the slash commands that write them, and the periodic  *)
(* task AlarmBot.check_alarms, split at its await points so that commands  *)
(* interleave with a tick the way the event loop lets them.                *)
(*                                                                         *)
(* Time is counted in seconds.  An instant is a number of seconds on the   *)
(* UTC axis; the local wall clock is the instant shifted by TZOffset.      *)
(* A local calendar date ('YYYY-MM-DD' in the code) is the number of the   *)
(* local day; the empty string of COALESCE(last_sent_local_date, '') is    *)
(* NoDate.                                                                 *)
(***************************************************************************)
EXTENDS Integers, Sequences, FiniteSets, TLC

\* ---------------------------------------------------------------- bounds
\* local calendar days 1..MaxDay the clock can be read in
MaxDay == 2
\* one-shot registrations accepted in a run
MaxOnce == 2
\* recurring registrations accepted in a run
MaxRec == 2
\* process terminations (crash or shutdown) in a run
MaxCrashes == 1
\* storage failures injected in a run
MaxStorageFailures == 1

\* ------------------------------------------------------ program constants
SecondsPerMinute == 60
MinutesPerHour == 60
HoursPerDay == 24
\* Asia/Seoul, the default of TIMEZONE: UTC+9, no daylight saving
TZOffset == 32400
\* @tasks.loop(seconds=60)
LoopSeconds == 60
\* the fixed time of alarm_daily20 / alarm_daily20_everyone / alarm_daily20_cancel
DailyHour == 20
DailyMinute == 0

SecondsPerDay == HoursPerDay * MinutesPerHour * SecondsPerMinute
NoDate == -1

\* ------------------------------------------------------------ time helpers
\* now_utc.astimezone(TZ): the wall clock reading, in seconds since local day 0
ToLocal(t) == t + TZOffset
\* run_local.astimezone(UTC) / .replace(tzinfo=TZ): the instant of a wall clock reading
ToUTC(l) == l - TZOffset
\* now_local.strftime("%Y-%m-%d")
LocalDate(t) == ToLocal(t) \div SecondsPerDay
\* now_local.replace(hour=h, minute=m, second=0, microsecond=0), as an instant
TargetLocal(t, h, m) ==
    ToUTC(LocalDate(t) * SecondsPerDay + (h * MinutesPerHour + m) * SecondsPerMinute)

\* the instant of second s of local day d
At(d, s) == ToUTC(d * SecondsPerDay + s)

\* seconds of the local day at which the clock is sampled:
\* 00:00:00, 20:00:00, 20:01:01, 23:59:30
SampleSecs == {0, 72000, 72061, 86370}
Instants == { At(d, s) : d \in 1..MaxDay, s \in SampleSecs }
\* one-shot alarms do not depend on the date: one day of samples
InstantsOfDay1 == { At(1, s) : s \in SampleSecs }

\* ------------------------------------------------------------- inputs
\* interaction contexts (guild_id, channel_id, user.id) commands are invoked from
\* the one one-shot alarms are registered from
Owner == [guild_id |-> 1, channel_id |-> 1, user_id |-> 1]
\* those recurring alarms are registered from
Registrants == { [guild_id |-> 1, channel_id |-> 1, user_id |-> 1],
                 [guild_id |-> 1, channel_id |-> 2, user_id |-> 1] }
\* those anything else is invoked from: also another user, and another guild
Callers == Registrants \cup
           { [guild_id |-> 1, channel_id |-> 1, user_id |-> 2],
             [guild_id |-> 2, channel_id |-> 3, user_id |-> 1] }
Messages == {"@everyone wake up"}
\* the minutes argument of alarm_in
MinutesArgs == {-1, 0, 1}
\* outcomes of get_channel + channel.send
Outcomes == {"ok", "raise", "nochannel"}

\* ------------------------------------------------------------- helpers
RECURSIVE SortedSeq(_)
SortedSeq(S) ==
    IF S = {} THEN <<>>
    ELSE LET m == CHOOSE x \in S : \A y \in S : x <= y
         IN <<m>> \o SortedSeq(S \ {m})

Put(f, key, v) == [x \in DOMAIN f \cup {key} |-> IF x = key THEN v ELSE f[x]]
\* (mutant: the DELETE is not committed)
DropNone(f, K) == f
Drop(f, K) == [x \in DOMAIN f \ K |-> f[x]]

\* ------------------------------------------------------------- state
VARIABLES
    now,            \* the clock (an instant)
    loop,           \* "down": process not running; "running"; "stopped": the
                    \* task check_alarms ended with an exception
    alarms,         \* table alarms, committed rows: id -> row
    alarms_seq,     \* AUTOINCREMENT counter of alarms
    recurring,      \* table recurring_alarms, committed rows: id -> row
    recurring_seq,  \* AUTOINCREMENT counter of recurring_alarms
    pc,             \* where check_alarms is
    now_utc,        \* check_alarms: now_utc (now_local and today_str derive from it)
    to_send_once,   \* check_alarms: to_send_once
    rrows,          \* check_alarms: rrows
    k,              \* check_alarms: position in to_send_once / rrows
    in_txn,         \* the tick's connection holds an open write transaction
    txn_once,       \* its uncommitted UPDATE alarms SET sent = 1: ids
    txn_rec,        \* its uncommitted UPDATE recurring_alarms SET last_sent_local_date: id -> date
    reply,          \* the response of the last command
    last,           \* history: the last delivery attempt of the running tick
    sends,          \* history: one-shot id -> number of delivery attempts
    rsends,         \* history: <<recurring id, tick's local date>> -> number of attempts
    hist            \* history: counters and sets the properties read

tickvars == <<pc, now_utc, to_send_once, rrows, k, in_txn, txn_once, txn_rec, last>>
dbvars == <<alarms, alarms_seq, recurring, recurring_seq>>
vars == <<now, loop, alarms, alarms_seq, recurring, recurring_seq, pc, now_utc,
          to_send_once, rrows, k, in_txn, txn_once, txn_rec, reply, last, sends,
          rsends, hist>>

\* a response: the command, whether it reported success, and the id it names
\* (for alarm_daily20_cancel, which names none: changes, the rows it updated)
Reply(cmd, ok, id) == [cmd |-> cmd, ok |-> ok, id |-> id]
NoReply == Reply("none", FALSE, 0)
\* no delivery attempted yet
NoSend == [kind |-> "none"]

Init ==
    /\ now = At(1, 0)
    /\ loop = "down"
    /\ alarms = << >>
    /\ alarms_seq = 0
    /\ recurring = << >>
    /\ recurring_seq = 0
    /\ pc = "idle"
    /\ now_utc = At(1, 0)
    /\ to_send_once = << >>
    /\ rrows = << >>
    /\ k = 1
    /\ in_txn = FALSE
    /\ txn_once = {}
    /\ txn_rec = << >>
    /\ reply = NoReply
    /\ last = NoSend
    /\ sends = << >>
    /\ rsends = << >>
    /\ hist = [crashes |-> 0, failures |-> 0, cancelled |-> {}, delivered |-> {},
               owed |-> {}, rowed |-> {}]

\* a command runs while the process is up; its write waits for the write lock
\* that an open transaction of the tick holds
Up == loop # "down"
CanWrite == Up /\ ~in_txn

\* ------------------------------------------------------------- commands
\* run_local = datetime.now(TZ) + timedelta(minutes=minutes); run_utc = run_local.astimezone(UTC)
RunAtIn(t, minutes) == ToUTC(ToLocal(t) + minutes * SecondsPerMinute)

InsertAlarm(c, run_at, message) ==
    /\ alarms_seq < MaxOnce
    /\ alarms_seq' = alarms_seq + 1
    /\ alarms' = Put(alarms, alarms_seq + 1,
                     [guild_id |-> c.guild_id, channel_id |-> c.channel_id,
                      user_id |-> c.user_id, run_at |-> run_at,
                      message |-> message, sent |-> 0])
    /\ sends' = Put(sends, alarms_seq + 1, 0)

alarm_in(c, minutes, message) ==
    /\ Up
    /\ IF minutes <= 0
       THEN /\ reply' = Reply("alarm_in", FALSE, 0)
            /\ UNCHANGED <<alarms, alarms_seq, sends>>
       ELSE /\ ~in_txn
            /\ InsertAlarm(c, RunAtIn(now, minutes), message)
            /\ reply' = Reply("alarm_in", TRUE, 0)
    /\ UNCHANGED <<now, loop, recurring, recurring_seq, tickvars, rsends, hist>>

\* datetime.strptime(when, "%Y-%m-%d %H:%M"): a well-formed string is <<day, hour,
\* minute>>; anything else raises ValueError
WhenArgs == { << >>, <<1, 24, 0>>, <<1, 0, 0>>, <<1, 20, 1>> }
WellFormedWhen(when) ==
    /\ Len(when) = 3
    /\ when[2] \in 0..(HoursPerDay - 1)
    /\ when[3] \in 0..(MinutesPerHour - 1)
\* .replace(tzinfo=TZ): the wall clock reading, as an instant
ParseWhen(when) ==
    ToUTC(when[1] * SecondsPerDay + (when[2] * MinutesPerHour + when[3]) * SecondsPerMinute)

alarm_at(c, when, message) ==
    /\ Up
    /\ IF ~WellFormedWhen(when)
       THEN /\ reply' = Reply("alarm_at", FALSE, 0)
            /\ UNCHANGED <<alarms, alarms_seq, sends>>
       ELSE IF ParseWhen(when) <= now
       THEN /\ reply' = Reply("alarm_at", FALSE, 0)
            /\ UNCHANGED <<alarms, alarms_seq, sends>>
       ELSE /\ ~in_txn
            /\ InsertAlarm(c, ParseWhen(when), message)
            /\ reply' = Reply("alarm_at", TRUE, 0)
    /\ UNCHANGED <<now, loop, recurring, recurring_seq, tickvars, rsends, hist>>

\* (mutant: the DELETE without the user_id condition)
CancelMatchesAnyUser(c, alarm_id) ==
    { id \in DOMAIN alarms :
        /\ id = alarm_id
        /\ alarms[id].guild_id = c.guild_id
        /\ alarms[id].sent = 0 }
\* (mutant: the DELETE without the sent = 0 condition)
CancelMatchesAnySent(c, alarm_id) ==
    { id \in DOMAIN alarms :
        /\ id = alarm_id
        /\ alarms[id].user_id = c.user_id
        /\ alarms[id].guild_id = c.guild_id }
\* DELETE FROM alarms WHERE id = ? AND user_id = ? AND guild_id = ? AND sent = 0
CancelMatches(c, alarm_id) ==
    { id \in DOMAIN alarms :
        /\ id = alarm_id
        /\ alarms[id].user_id = c.user_id
        /\ alarms[id].guild_id = c.guild_id
        /\ alarms[id].sent = 0 }

alarm_cancel(c, alarm_id) ==
    /\ CanWrite
    /\ LET gone == CancelMatches(c, alarm_id)
           changes == Cardinality(gone)
       IN /\ alarms' = Drop(alarms, gone)
          /\ reply' = Reply("alarm_cancel", changes # 0, alarm_id)
          /\ hist' = [hist EXCEPT !.cancelled = IF changes # 0 THEN @ \cup {alarm_id} ELSE @,
                                  !.owed = @ \ gone]
    /\ UNCHANGED <<now, loop, alarms_seq, recurring, recurring_seq, tickvars, sends, rsends>>

\* (mutant: a registration after today's target stores today as the date sent)
InsertRecurringFromTomorrow(c, hour, minute, message, ping_everyone) ==
    /\ ~in_txn
    /\ recurring_seq < MaxRec
    /\ recurring_seq' = recurring_seq + 1
    /\ recurring' = Put(recurring, recurring_seq + 1,
                        [guild_id |-> c.guild_id, channel_id |-> c.channel_id,
                         user_id |-> c.user_id, at_hour |-> hour, at_minute |-> minute,
                         message |-> message, enabled |-> 1,
                         last_sent_local_date |->
                             IF now > TargetLocal(now, hour, minute)
                             THEN LocalDate(now) ELSE NoDate,
                         ping_everyone |-> ping_everyone])
InsertRecurring(c, hour, minute, message, ping_everyone) ==
    /\ ~in_txn
    /\ recurring_seq < MaxRec
    /\ recurring_seq' = recurring_seq + 1
    /\ recurring' = Put(recurring, recurring_seq + 1,
                        [guild_id |-> c.guild_id, channel_id |-> c.channel_id,
                         user_id |-> c.user_id, at_hour |-> hour, at_minute |-> minute,
                         message |-> message, enabled |-> 1,
                         last_sent_local_date |-> NoDate,
                         ping_everyone |-> ping_everyone])

alarm_daily20(c, message) ==
    /\ Up
    /\ InsertRecurring(c, DailyHour, DailyMinute, message, 0)
    /\ reply' = Reply("alarm_daily20", TRUE, 0)
    /\ UNCHANGED <<now, loop, alarms, alarms_seq, tickvars, sends, rsends, hist>>

\* perms: "none" (no guild or channel), "allowed" or "denied" (perms.mention_everyone)
Perms == {"none", "allowed", "denied"}

alarm_daily20_everyone(c, perms, message) ==
    /\ Up
    /\ IF perms = "denied"
       THEN /\ reply' = Reply("alarm_daily20_everyone", FALSE, 0)
            /\ UNCHANGED <<recurring, recurring_seq>>
       ELSE /\ InsertRecurring(c, DailyHour, DailyMinute, message, 1)
            /\ reply' = Reply("alarm_daily20_everyone", TRUE, 0)
    /\ UNCHANGED <<now, loop, alarms, alarms_seq, tickvars, sends, rsends, hist>>

\* hour, minute = map(int, time.split(":")): the string is the sequence of its
\* integer fields; any other number of fields raises ValueError
TimeArgs == { <<23, 59>>, <<24, 0>>, <<23, 60>>, <<8>> }
\* (mutant: the hour not checked against its range)
ValidTimeAnyHour(time) ==
    /\ Len(time) = 2
    /\ 0 <= time[2] /\ time[2] <= MinutesPerHour - 1
ValidTime(time) ==
    /\ Len(time) = 2
    /\ 0 <= time[1] /\ time[1] <= HoursPerDay - 1
    /\ 0 <= time[2] /\ time[2] <= MinutesPerHour - 1

alarm_daily_everyone(c, perms, time, message) ==
    /\ Up
    /\ IF perms = "denied" \/ ~ValidTime(time)
       THEN /\ reply' = Reply("alarm_daily_everyone", FALSE, 0)
            /\ UNCHANGED <<recurring, recurring_seq>>
       ELSE /\ InsertRecurring(c, time[1], time[2], message, 1)
            /\ reply' = Reply("alarm_daily_everyone", TRUE, 0)
    /\ UNCHANGED <<now, loop, alarms, alarms_seq, tickvars, sends, rsends, hist>>

\* (mutant: the UPDATE without the channel_id condition)
Daily20MatchesAnyChannel(c) ==
    { id \in DOMAIN recurring :
        /\ recurring[id].guild_id = c.guild_id
        /\ recurring[id].user_id = c.user_id
        /\ recurring[id].at_hour = DailyHour
        /\ recurring[id].at_minute = DailyMinute
        /\ recurring[id].enabled = 1 }
\* UPDATE recurring_alarms SET enabled = 0 WHERE guild_id = ? AND channel_id = ?
\*   AND user_id = ? AND at_hour = 20 AND at_minute = 0 AND enabled = 1
Daily20Matches(c) ==
    { id \in DOMAIN recurring :
        /\ recurring[id].guild_id = c.guild_id
        /\ recurring[id].channel_id = c.channel_id
        /\ recurring[id].user_id = c.user_id
        /\ recurring[id].at_hour = DailyHour
        /\ recurring[id].at_minute = DailyMinute
        /\ recurring[id].enabled = 1 }

alarm_daily20_cancel(c) ==
    /\ CanWrite
    /\ LET off == Daily20Matches(c)
       IN /\ recurring' = [id \in DOMAIN recurring |->
                             IF id \in off THEN [recurring[id] EXCEPT !.enabled = 0]
                             ELSE recurring[id]]
          /\ reply' = Reply("alarm_daily20_cancel", Cardinality(off) # 0, Cardinality(off))
    /\ UNCHANGED <<now, loop, alarms, alarms_seq, recurring_seq, tickvars, sends, rsends, hist>>

\* ORDER BY at_hour, at_minute, id
ListKey(id) ==
    (recurring[id].at_hour * MinutesPerHour + recurring[id].at_minute) * (MaxRec + 1) + id

\* alarm_daily_list: the rows of the caller's guild and user, enabled or not, one
\* line each; it writes nothing
alarm_daily_list(c) ==
    LET keys == SortedSeq({ ListKey(id) : id \in { x \in DOMAIN recurring :
                               /\ recurring[x].guild_id = c.guild_id
                               /\ recurring[x].user_id = c.user_id } })
        row(n) == recurring[keys[n] % (MaxRec + 1)]
    IN [n \in 1..Len(keys) |->
          [rid |-> keys[n] % (MaxRec + 1), at_hour |-> row(n).at_hour,
           at_minute |-> row(n).at_minute,
           status |-> IF row(n).enabled # 0 THEN "ON" ELSE "OFF",
           tag |-> IF row(n).ping_everyone = 1 THEN "@everyone" ELSE "",
           message |-> row(n).message, last_sent |-> row(n).last_sent_local_date]]

\* ------------------------------------------------------- check_alarms
\* the task starts an iteration when the previous one has returned
TickReady == loop = "running" /\ pc \in {"idle", "sleep"}

\* (mutant: due only within one loop interval of run_at)
DueOnceThisMinute(run_at, t) == run_at <= t /\ t - run_at < LoopSeconds
\* if run_dt <= now_utc
DueOnce(run_at, t) == run_at <= t

\* (mutant: the SELECT without its WHERE clause)
UnsentIdsAnySent == DOMAIN alarms
\* SELECT ... FROM alarms WHERE sent = 0
UnsentIds == { id \in DOMAIN alarms : alarms[id].sent = 0 }

\* to_send_once: the due rows of the SELECT, in rowid order
ToSendOnce(t) ==
    LET due == { id \in UnsentIds : DueOnce(alarms[id].run_at, t) }
        ids == SortedSeq(due)
    IN [n \in 1..Len(ids) |->
          [rid |-> ids[n], channel_id |-> alarms[ids[n]].channel_id,
           user_id |-> alarms[ids[n]].user_id, message |-> alarms[ids[n]].message]]

\* lines 71-90: read the clock, SELECT the unsent alarms, keep the due ones
TickStart ==
    /\ TickReady
    /\ now_utc' = now
    /\ to_send_once' = ToSendOnce(now)
    /\ rrows' = << >>
    /\ k' = 1
    /\ pc' = IF ToSendOnce(now) = << >> THEN "rec_select" ELSE "once_send"
    /\ UNCHANGED <<now, loop, dbvars, in_txn, txn_once, txn_rec, reply, last, sends, rsends, hist>>

\* channel.send(f"<@{user_id}> 알람: {message}"): no allowed_mentions is passed
OnceText(row, outcome) ==
    [kind |-> "once", rid |-> row.rid, outcome |-> outcome, mention |-> row.user_id,
     message |-> row.message, everyone |-> "default"]

\* the registered messages that contain the text @everyone
EveryoneTexts == {"@everyone wake up"}
\* whether a send pings all members: with AllowedMentions(everyone=True) it
\* does, with AllowedMentions(everyone=False) it does not, and with no
\* allowed_mentions at all (the client is built without any either, line 24) the
\* request carries none and every mention written in the text is honoured
PingsEveryone(sent) ==
    \/ sent.everyone = "on"
    \/ sent.everyone = "default" /\ sent.message \in EveryoneTexts

\* lines 93-98: get_channel and send; an exception of send is caught
OnceSend(outcome) ==
    /\ pc = "once_send"
    /\ LET row == to_send_once[k]
       IN /\ last' = OnceText(row, outcome)
          /\ sends' = [sends EXCEPT ![row.rid] = @ + 1]
          /\ hist' = [hist EXCEPT !.owed = @ \ {row.rid},
                                  !.delivered = IF outcome = "ok" THEN @ \cup {row.rid} ELSE @]
    /\ pc' = "once_mark"
    /\ UNCHANGED <<now, loop, dbvars, now_utc, to_send_once, rrows, k, in_txn,
                   txn_once, txn_rec, reply, rsends>>

\* (mutant: the UPDATE only after a send that succeeded)
MarkOnceIfSent(rid) ==
    IF last.outcome = "ok" THEN txn_once \cup ({rid} \cap DOMAIN alarms) ELSE txn_once
\* line 99: UPDATE alarms SET sent = 1 WHERE id = ?   (not committed yet)
MarkOnce(rid) == txn_once \cup ({rid} \cap DOMAIN alarms)

OnceMark ==
    /\ pc = "once_mark"
    /\ txn_once' = MarkOnce(to_send_once[k].rid)
    /\ in_txn' = TRUE
    /\ k' = k + 1
    /\ pc' = IF k + 1 > Len(to_send_once) THEN "once_commit" ELSE "once_send"
    /\ UNCHANGED <<now, loop, dbvars, now_utc, to_send_once, rrows, txn_rec,
                   reply, last, sends, rsends, hist>>

\* the table alarms once the UPDATEs of ids are committed
ApplyOnce(ids) ==
    [id \in DOMAIN alarms |->
       IF id \in ids THEN [alarms[id] EXCEPT !.sent = 1] ELSE alarms[id]]

\* lines 100-101: if to_send_once: await db.commit()
OnceCommit ==
    /\ pc = "once_commit"
    /\ alarms' = ApplyOnce(txn_once)
    /\ txn_once' = {}
    /\ in_txn' = FALSE
    /\ pc' = "rec_select"
    /\ last' = NoSend
    /\ UNCHANGED <<now, loop, alarms_seq, recurring, recurring_seq, now_utc,
                   to_send_once, rrows, k, txn_rec, reply, sends, rsends, hist>>

\* (mutant: the comparison with the target left out)
DueRecurringNoTimeGuard(row, t) == row.last_sent # LocalDate(t)
\* (mutant: the date guard left out)
DueRecurringNoDateGuard(row, t) == t >= TargetLocal(t, row.at_hour, row.at_minute)
\* (mutant: > for >=)
DueRecurringStrict(row, t) ==
    /\ row.last_sent # LocalDate(t)
    /\ t > TargetLocal(t, row.at_hour, row.at_minute)
\* (mutant: due only in the minute of the target)
DueRecurringThisMinute(row, t) ==
    /\ row.last_sent # LocalDate(t)
    /\ t >= TargetLocal(t, row.at_hour, row.at_minute)
    /\ t < TargetLocal(t, row.at_hour, row.at_minute) + LoopSeconds
\* if last_sent != today_str and now_local >= target_local
DueRecurring(row, t) ==
    /\ row.last_sent # LocalDate(t)
    /\ t >= TargetLocal(t, row.at_hour, row.at_minute)

\* (mutant: the SELECT without its WHERE clause)
RowsEnabledOrNot ==
    LET ids == SortedSeq(DOMAIN recurring)
    IN [n \in 1..Len(ids) |->
          [rid |-> ids[n], channel_id |-> recurring[ids[n]].channel_id,
           user_id |-> recurring[ids[n]].user_id,
           at_hour |-> recurring[ids[n]].at_hour,
           at_minute |-> recurring[ids[n]].at_minute,
           message |-> recurring[ids[n]].message,
           last_sent |-> recurring[ids[n]].last_sent_local_date,
           ping_everyone |-> recurring[ids[n]].ping_everyone]]
\* SELECT ... FROM recurring_alarms WHERE enabled = 1, in rowid order
EnabledRows ==
    LET ids == SortedSeq({ id \in DOMAIN recurring : recurring[id].enabled = 1 })
    IN [n \in 1..Len(ids) |->
          [rid |-> ids[n], channel_id |-> recurring[ids[n]].channel_id,
           user_id |-> recurring[ids[n]].user_id,
           at_hour |-> recurring[ids[n]].at_hour,
           at_minute |-> recurring[ids[n]].at_minute,
           message |-> recurring[ids[n]].message,
           last_sent |-> recurring[ids[n]].last_sent_local_date,
           ping_everyone |-> recurring[ids[n]].ping_everyone]]

\* the position of the first due row of rows at or after position n (Len + 1: none);
\* the loop of line 112 runs through rows that are not due without awaiting
RECURSIVE NextDue(_, _, _)
NextDue(rows, n, t) ==
    IF n > Len(rows) THEN n
    ELSE IF DueRecurring(rows[n], t) THEN n
    ELSE NextDue(rows, n + 1, t)

\* lines 104-110
RecSelect ==
    /\ pc = "rec_select"
    /\ rrows' = EnabledRows
    /\ k' = NextDue(EnabledRows, 1, now_utc)
    /\ pc' = IF NextDue(EnabledRows, 1, now_utc) > Len(EnabledRows)
             THEN "final_commit" ELSE "rec_send"
    /\ UNCHANGED <<now, loop, dbvars, now_utc, to_send_once, in_txn, txn_once,
                   txn_rec, reply, last, sends, rsends, hist>>

\* lines 119-125: the text and the AllowedMentions of a recurring delivery
RecText(row, outcome) ==
    IF row.ping_everyone = 1
    THEN [kind |-> "recurring", rid |-> row.rid, outcome |-> outcome,
          mention |-> "everyone", message |-> row.message, everyone |-> "on"]
    ELSE [kind |-> "recurring", rid |-> row.rid, outcome |-> outcome,
          mention |-> row.user_id, message |-> row.message, everyone |-> "off"]

\* lines 116-127
RecSend(outcome) ==
    /\ pc = "rec_send"
    /\ LET row == rrows[k]
           key == <<row.rid, LocalDate(now_utc)>>
       IN /\ last' = RecText(row, outcome)
          /\ rsends' = Put(rsends, key,
                           IF key \in DOMAIN rsends THEN rsends[key] + 1 ELSE 1)
          /\ hist' = [hist EXCEPT !.rowed = { p \in @ : p[1] # row.rid }]
    /\ pc' = "rec_mark"
    /\ UNCHANGED <<now, loop, dbvars, now_utc, to_send_once, rrows, k, in_txn,
                   txn_once, txn_rec, reply, sends>>

\* lines 128-132: UPDATE recurring_alarms SET last_sent_local_date = ? WHERE id = ?
MarkRecurring(rid, today) == Put(txn_rec, rid, today)

RecMark ==
    /\ pc = "rec_mark"
    /\ txn_rec' = MarkRecurring(rrows[k].rid, LocalDate(now_utc))
    /\ in_txn' = TRUE
    /\ k' = NextDue(rrows, k + 1, now_utc)
    /\ pc' = IF NextDue(rrows, k + 1, now_utc) > Len(rrows)
             THEN "final_commit" ELSE "rec_send"
    /\ UNCHANGED <<now, loop, dbvars, now_utc, to_send_once, rrows, txn_once,
                   reply, last, sends, rsends, hist>>

\* line 134: await db.commit(); the iteration returns
FinalCommit ==
    /\ pc = "final_commit"
    /\ recurring' = [id \in DOMAIN recurring |->
                       IF id \in DOMAIN txn_rec
                       THEN [recurring[id] EXCEPT !.last_sent_local_date = txn_rec[id]]
                       ELSE recurring[id]]
    /\ txn_rec' = << >>
    /\ in_txn' = FALSE
    /\ pc' = "sleep"
    /\ last' = NoSend
    /\ UNCHANGED <<now, loop, alarms, alarms_seq, recurring_seq, now_utc,
                   to_send_once, rrows, k, txn_once, reply, sends, rsends, hist>>

\* the table alarms after the tick's connection closed without a commit: the
\* open transaction is rolled back
\* (mutant: closing the connection commits)
AlarmsCommitOnClose == ApplyOnce(txn_once)
AlarmsAfterClose == alarms

\* the coroutine is gone: its locals are lost and the connection closes without
\* a commit
TickAbandoned ==
    /\ alarms' = AlarmsAfterClose
    /\ UNCHANGED <<alarms_seq, recurring, recurring_seq>>
    /\ pc' = "idle"
    /\ to_send_once' = << >>
    /\ rrows' = << >>
    /\ k' = 1
    /\ in_txn' = FALSE
    /\ txn_once' = {}
    /\ txn_rec' = << >>
    /\ last' = NoSend
    /\ UNCHANGED now_utc

\* the alarms the running tick has selected and not committed
UncommittedOnce ==
    IF pc \in {"once_send", "once_mark", "once_commit"}
    THEN { to_send_once[n].rid : n \in 1..Len(to_send_once) } \cap UnsentIds
    ELSE {}
UncommittedRec ==
    IF pc \in {"rec_send", "rec_mark", "final_commit"}
    THEN { <<rrows[n].rid, LocalDate(now_utc)>> :
             n \in { m \in 1..Len(rrows) : DueRecurring(rrows[m], now_utc) } }
    ELSE {}

\* a storage call of check_alarms (lines 75-134: connect, SELECT, UPDATE, commit)
\* raises; nothing in check_alarms catches it, so it leaves the task, which ends
AtStorageCall == pc \in {"idle", "sleep", "once_mark", "once_commit", "rec_select",
                         "rec_mark", "final_commit"}

LoopAfterError == "stopped"

StorageFail ==
    /\ loop = "running"
    /\ AtStorageCall
    /\ hist.failures < MaxStorageFailures
    /\ loop' = LoopAfterError
    /\ TickAbandoned
    /\ hist' = [hist EXCEPT !.failures = @ + 1]
    /\ UNCHANGED <<now, reply, sends, rsends>>

\* the process ends (crash or shutdown) wherever the tick is
Crash ==
    /\ Up
    /\ hist.crashes < MaxCrashes
    /\ loop' = "down"
    /\ TickAbandoned
    /\ hist' = [hist EXCEPT !.crashes = @ + 1,
                            !.owed = @ \cup UncommittedOnce,
                            !.rowed = @ \cup UncommittedRec]
    /\ UNCHANGED <<now, reply, sends, rsends>>

\* setup_hook (lines 28-31): _init_db keeps the tables, check_alarms.start()
Start ==
    /\ loop = "down"
    /\ loop' = "running"
    /\ UNCHANGED <<now, dbvars, tickvars, reply, sends, rsends, hist>>

\* the clock moves on
Advance ==
    /\ \E t \in Instants : t > now /\ now' = t
    /\ UNCHANGED <<loop, dbvars, tickvars, reply, sends, rsends, hist>>

AdvanceInDay1 ==
    /\ \E t \in InstantsOfDay1 : t > now /\ now' = t
    /\ UNCHANGED <<loop, dbvars, tickvars, reply, sends, rsends, hist>>

OnceCommand ==
    \/ \E m \in MinutesArgs, msg \in Messages : alarm_in(Owner, m, msg)
    \/ \E w \in WhenArgs, msg \in Messages : alarm_at(Owner, w, msg)
    \/ \E c \in Callers, id \in 1..MaxOnce : alarm_cancel(c, id)

RecCommand ==
    \/ \E msg \in Messages : alarm_daily20(Owner, msg)
    \/ \E p \in Perms, msg \in Messages : alarm_daily20_everyone(Owner, p, msg)
    \/ \E p \in Perms, t \in TimeArgs, msg \in Messages :
          alarm_daily_everyone(Owner, p, t, msg)
    \/ \E c \in Callers : alarm_daily20_cancel(c)

\* the recurring commands invoked from two channels of one guild
RecCommandAnywhere ==
    \/ \E c \in Registrants, msg \in Messages : alarm_daily20(c, msg)
    \/ \E c \in Registrants, p \in Perms, msg \in Messages : alarm_daily20_everyone(c, p, msg)
    \/ \E c \in Registrants, p \in Perms, t \in TimeArgs, msg \in Messages :
          alarm_daily_everyone(c, p, t, msg)
    \/ \E c \in Callers : alarm_daily20_cancel(c)

\* the steps of check_alarms on the one-shot alarms, and those on the recurring ones
TickOnce == (\E o \in Outcomes : OnceSend(o)) \/ OnceMark \/ OnceCommit
TickRec == (\E o \in Outcomes : RecSend(o)) \/ RecMark
TickFrame == TickStart \/ RecSelect \/ FinalCommit
Environment == StorageFail \/ Crash \/ Start \/ Advance

\* the whole program
Next == OnceCommand \/ RecCommandAnywhere \/ TickFrame \/ TickOnce \/ TickRec \/ Environment
Spec == Init /\ [][Next]_vars

\* the program when only one-shot alarms are registered and the process does
\* not end
NextOnce == OnceCommand \/ TickFrame \/ TickOnce \/ StorageFail \/ Start \/ AdvanceInDay1
SpecOnce == Init /\ [][NextOnce]_vars

\* the program when only recurring alarms are registered, from one channel, and
\* the process does not end
NextRec == RecCommand \/ TickFrame \/ TickRec \/ StorageFail \/ Start \/ Advance
SpecRec == Init /\ [][NextRec]_vars

\* ------------------------------------------------- a populated database
\* the tables after these commands at 00:00:00 of day 1, before any tick:
\* alarm_in(minutes=1), alarm_at("... 20:01"), and one alarm_daily_everyone or
\* alarm_daily20
SeedAlarms ==
    LET row(run_at) == [guild_id |-> Owner.guild_id, channel_id |-> Owner.channel_id,
                        user_id |-> Owner.user_id, run_at |-> run_at,
                        message |-> "@everyone wake up", sent |-> 0]
    IN <<row(RunAtIn(At(1, 0), 1)), row(ParseWhen(<<1, 20, 1>>))>>

SeedTimes == { <<0, 0, 1>>, <<DailyHour, DailyMinute, 0>>, <<23, 59, 1>> }

SeedRecurring(tm) ==
    <<[guild_id |-> Owner.guild_id, channel_id |-> Owner.channel_id,
       user_id |-> Owner.user_id, at_hour |-> tm[1], at_minute |-> tm[2],
       message |-> "@everyone wake up", enabled |-> 1,
       last_sent_local_date |-> NoDate, ping_everyone |-> tm[3]]>>

InitSeeded ==
    /\ now = At(1, 0)
    /\ loop = "down"
    /\ alarms = SeedAlarms
    /\ alarms_seq = 2
    /\ \E tm \in SeedTimes : recurring = SeedRecurring(tm)
    /\ recurring_seq = 1
    /\ pc = "idle"
    /\ now_utc = At(1, 0)
    /\ to_send_once = << >>
    /\ rrows = << >>
    /\ k = 1
    /\ in_txn = FALSE
    /\ txn_once = {}
    /\ txn_rec = << >>
    /\ reply = NoReply
    /\ last = NoSend
    /\ sends = <<0, 0>>
    /\ rsends = << >>
    /\ hist = [crashes |-> 0, failures |-> 0, cancelled |-> {}, delivered |-> {},
               owed |-> {}, rowed |-> {}]

\* the scheduler on a populated database: ticks at any instants, the process
\* ending and starting again, no command
NextSeeded == TickFrame \/ TickOnce \/ TickRec \/ Crash \/ Start \/ Advance
SpecSeeded == InitSeeded /\ [][NextSeeded]_vars

\* ------------------------------------------------------- regular ticks
\* local days 1..RegularDays, one tick every LoopSeconds
RegularDays == 3
\* the second of the minute the first tick runs at
Phases == {0, 59}

InitRegular ==
    /\ \E ph \in Phases : now = At(1, ph) /\ now_utc = At(1, ph)
    /\ loop = "running"
    /\ alarms = << >>
    /\ alarms_seq = 0
    /\ \E tm \in SeedTimes : recurring = SeedRecurring(tm)
    /\ recurring_seq = 1
    /\ pc = "idle"
    /\ to_send_once = << >>
    /\ rrows = << >>
    /\ k = 1
    /\ in_txn = FALSE
    /\ txn_once = {}
    /\ txn_rec = << >>
    /\ reply = NoReply
    /\ last = NoSend
    /\ sends = << >>
    /\ rsends = << >>
    /\ hist = [crashes |-> 0, failures |-> 0, cancelled |-> {}, delivered |-> {},
               owed |-> {}, rowed |-> {}]

\* the iteration of this instant has not run yet
RegularTick == (pc = "idle" \/ now_utc < now) /\ TickStart
\* the iteration of this instant has returned: sleep until the next one
RegularSleep ==
    /\ pc = "sleep"
    /\ now_utc = now
    /\ now + LoopSeconds < At(RegularDays + 1, 0)
    /\ now' = now + LoopSeconds
    /\ UNCHANGED <<loop, dbvars, tickvars, reply, sends, rsends, hist>>

NextRegular == RegularTick \/ RecSelect \/ TickRec \/ FinalCommit \/ RegularSleep
SpecRegular == InitRegular /\ [][NextRegular]_vars

\* ------------------------------------------- recurring alarms, two channels
\* the recurring commands invoked from two channels of one guild, ticks within
\* one local day
NextChannels == RecCommandAnywhere \/ TickFrame \/ TickRec \/ Start \/ AdvanceInDay1
SpecChannels == Init /\ [][NextChannels]_vars

\* ------------------------------------- a populated database, with disables
\* the scheduler on a populated database while alarm_daily20_cancel is invoked;
\* the process does not end
NextSeededDisable ==
    \/ TickFrame \/ TickOnce \/ TickRec \/ Start \/ Advance
    \/ \E c \in Callers : alarm_daily20_cancel(c)
SpecSeededDisable == InitSeeded /\ [][NextSeededDisable]_vars

\* --------------------------------------------------- late registrations
\* a recurring registration made when today's target has already passed
LateCommand ==
    \/ /\ now > TargetLocal(now, DailyHour, DailyMinute)
       /\ \/ \E msg \in Messages : alarm_daily20(Owner, msg)
          \/ \E p \in Perms, msg \in Messages : alarm_daily20_everyone(Owner, p, msg)
    \/ \E p \in Perms, t \in TimeArgs, msg \in Messages :
          /\ ValidTime(t)
          /\ now > TargetLocal(now, t[1], t[2])
          /\ alarm_daily_everyone(Owner, p, t, msg)

\* recurring alarms that are all registered late, and the ticks; the process
\* does not end
NextLate == LateCommand \/ TickFrame \/ TickRec \/ Start \/ Advance
SpecLate == Init /\ [][NextLate]_vars

\* ------------------------------------------------------ registrations
\* the commands that validate their arguments
Registration ==
    \/ \E m \in MinutesArgs, msg \in Messages : alarm_in(Owner, m, msg)
    \/ \E w \in WhenArgs, msg \in Messages : alarm_at(Owner, w, msg)
    \/ \E p \in Perms, t \in TimeArgs, msg \in Messages :
          alarm_daily_everyone(Owner, p, t, msg)

\* registrations of both kinds, with the ticks of one local day
NextRegistrations == Registration \/ TickFrame \/ TickOnce \/ TickRec \/ Start
                        \/ AdvanceInDay1
SpecRegistrations == Init /\ [][NextRegistrations]_vars

\* ------------------------------------------------------------ properties
OncePhase == pc \in {"once_send", "once_mark", "once_commit"}
\* the running or last tick is past the commit of its one-shot alarms
PastOncePhase == pc \in {"rec_select", "rec_send", "rec_mark", "final_commit", "sleep"}
RecPhase == pc \in {"rec_send", "rec_mark", "final_commit"}
SelectedIds == { to_send_once[n].rid : n \in 1..Len(to_send_once) }
Attempts(rid, d) == IF <<rid, d>> \in DOMAIN rsends THEN rsends[<<rid, d>>] ELSE 0

\* C1: while the process does not end, a one-shot alarm gets at most one
\* delivery attempt; an alarm a tick has marked sent (committed) is not selected
\* by any later tick; a send carries the registered message and user id.
C1_OneShotNoRedelivery ==
    /\ \A id \in DOMAIN sends : sends[id] <= 1
    /\ OncePhase => \A id \in SelectedIds \cap DOMAIN alarms : alarms[id].sent = 0
    /\ (last.kind = "once" /\ last.rid \in DOMAIN alarms) =>
          /\ last.mention = alarms[last.rid].user_id
          /\ last.message = alarms[last.rid].message

\* C1 witness: an alarm registered with minutes = 1 was sent once by a tick 61 s
\* later and is marked; a later tick has completed and selected nothing.
C1_Witness ==
    \E id \in DOMAIN alarms :
        /\ alarms[id].sent = 1
        /\ sends[id] = 1
        /\ alarms[id].run_at = RunAtIn(At(1, 72000), 1)
        /\ pc = "sleep"
        /\ to_send_once = << >>
        /\ now_utc >= At(1, 72061)

\* C2: while the process does not end, a recurring alarm gets at most one
\* delivery attempt per local date (the date the delivering tick read), and a
\* row whose last_sent_local_date is the tick's date is not delivered.
C2_RecurringAtMostOncePerDay ==
    /\ \A key \in DOMAIN rsends : rsends[key] <= 1
    /\ pc = "rec_send" =>
          recurring[rrows[k].rid].last_sent_local_date # LocalDate(now_utc)

\* C2 witness: an alarm delivered and marked for a date, and a later tick of the
\* same date that reached its final commit without writing anything.
C2_Witness ==
    \E rid \in DOMAIN recurring :
        /\ recurring[rid].enabled = 1
        /\ recurring[rid].last_sent_local_date = LocalDate(now_utc)
        /\ Attempts(rid, LocalDate(now_utc)) = 1
        /\ pc = "final_commit"
        /\ ~in_txn
        /\ Len(rrows) > 0

\* C3: no alarm is both cancelled with success and delivered.
C3_NoCancelAndDelivery == hist.cancelled \cap hist.delivered = {}

\* C4: after a storage failure in a tick the loop keeps running.
C4_LoopSurvivesStorageFailure == hist.failures > 0 => loop = "running"

\* positions of rrows the tick treats as due
DuePositions == { n \in 1..Len(rrows) : DueRecurring(rrows[n], now_utc) }

\* C5: whatever get_channel and send did, the tick marks every alarm it selected:
\* each one-shot alarm already passed in to_send_once is in the transaction, and
\* after the commit every selected alarm has sent = 1; each due recurring row
\* already passed is in the transaction, and when the tick has returned every due
\* row has last_sent_local_date = today; no outcome of a send ends the task.
C5_MarkedWhateverTheOutcome ==
    /\ loop # "stopped"
    /\ OncePhase =>
          \A n \in 1..Len(to_send_once) :
              (n < k /\ to_send_once[n].rid \in DOMAIN alarms)
                  => to_send_once[n].rid \in txn_once
    /\ PastOncePhase =>
          \A id \in SelectedIds \cap DOMAIN alarms : alarms[id].sent = 1
    /\ RecPhase =>
          \A n \in DuePositions : n < k => rrows[n].rid \in DOMAIN txn_rec
    /\ pc = "sleep" =>
          \A n \in DuePositions :
              recurring[rrows[n].rid].last_sent_local_date = LocalDate(now_utc)

\* C5 witness: two one-shot alarms were due in one tick, the send of the last one
\* raised or had no channel, and both are marked.
C5_Witness ==
    /\ pc = "once_commit"
    /\ Len(to_send_once) = 2
    /\ last.kind = "once"
    /\ last.outcome \in {"raise", "nochannel"}
    /\ txn_once = SelectedIds

\* C6: an alarm selected by a tick that the end of the process cut short before
\* its commit is still unmarked and due, and the next tick has it in
\* to_send_once until it attempts it; the same for a due recurring row on the
\* date of the cut tick; and no alarm is marked without a delivery attempt.
C6_CrashKeepsAlarmsDue ==
    /\ \A id \in hist.owed :
          /\ id \in UnsentIds
          /\ DueOnce(alarms[id].run_at, now)
          /\ OncePhase =>
                \E n \in 1..Len(to_send_once) : n >= k /\ to_send_once[n].rid = id
    /\ PastOncePhase => hist.owed = {}
    /\ \A p \in hist.rowed :
          /\ recurring[p[1]].last_sent_local_date # p[2]
          /\ (RecPhase /\ LocalDate(now_utc) = p[2]) =>
                \E n \in DuePositions : n >= k /\ rrows[n].rid = p[1]
          /\ (pc = "sleep" /\ LocalDate(now_utc) = p[2]) => FALSE
    /\ \A id \in DOMAIN alarms : alarms[id].sent = 1 => sends[id] >= 1
    /\ \A rid \in DOMAIN recurring :
          recurring[rid].last_sent_local_date # NoDate =>
              Attempts(rid, recurring[rid].last_sent_local_date) >= 1

\* C6 witness: an alarm was sent, the process ended before the commit, and after
\* the restart a tick sent it again and marked it.
C6_Witness ==
    \E id \in DOMAIN alarms :
        /\ hist.crashes = 1
        /\ sends[id] = 2
        /\ alarms[id].sent = 1

\* the instant of the target of a seeded recurring alarm on local day d
TargetOn(rid, d) ==
    At(d, (recurring[rid].at_hour * MinutesPerHour + recurring[rid].at_minute)
              * SecondsPerMinute)

\* C7: with a tick every 60 seconds over local days 1..RegularDays, a recurring
\* alarm is delivered by the tick that is the first of its day at or after the
\* target (the one less than 60 seconds after it), never twice for a date, and
\* once the tick at or after the target of a date has returned, exactly once for
\* that date and for every date before it.
C7_ExactlyOncePerDayRegular ==
    /\ \A key \in DOMAIN rsends : rsends[key] <= 1
    /\ pc \in {"rec_send", "rec_mark"} =>
          /\ now_utc >= TargetOn(rrows[k].rid, LocalDate(now_utc))
          /\ now_utc < TargetOn(rrows[k].rid, LocalDate(now_utc)) + LoopSeconds
    /\ pc = "sleep" =>
          \A rid \in DOMAIN recurring : \A d \in 1..RegularDays :
              TargetOn(rid, d) <= now_utc => Attempts(rid, d) = 1

\* C7 witness: the tick after the target of the third day has returned and the
\* alarm was delivered once on each of the three days.
C7_Witness ==
    /\ pc = "sleep"
    /\ LocalDate(now_utc) = RegularDays
    /\ \A d \in 1..RegularDays : Attempts(1, d) = 1

\* C8: a tick has every unsent alarm with run_at <= now_utc in to_send_once, and
\* once it is past the commit of the one-shot alarms no alarm with
\* run_at <= now_utc is left unsent or without a delivery attempt, however late
\* the tick ran.
C8_DelayedOneShotNotDropped ==
    /\ OncePhase =>
          \A id \in UnsentIds :
              alarms[id].run_at <= now_utc => id \in SelectedIds
    /\ PastOncePhase =>
          \A id \in DOMAIN alarms :
              alarms[id].run_at <= now_utc => alarms[id].sent = 1 /\ sends[id] >= 1

\* C8 witness: a tick that ran hours after run_at has just committed the alarm.
C8_Witness ==
    \E id \in SelectedIds \cap DOMAIN alarms :
        /\ pc = "rec_select"
        /\ alarms[id].sent = 1
        /\ now_utc - alarms[id].run_at > MinutesPerHour * SecondsPerMinute

\* C9 (as claimed): once a tick has returned, the alarm has been delivered for
\* every local day whose target lies at or before the tick's clock reading.
C9_FiresForEveryMissedDay ==
    pc = "sleep" =>
        \A rid \in DOMAIN recurring : \A d \in 1..MaxDay :
            TargetOn(rid, d) <= now_utc => Attempts(rid, d) >= 1

\* C9 (amended): once a tick has returned whose clock reading is at or after the
\* alarm's target of the tick's own local date, the alarm has been delivered for
\* that date (once, if the process did not end in between) and is marked for it.
C9_FiresOnRecoveryTheSameDay ==
    pc = "sleep" =>
        \A rid \in DOMAIN recurring :
            TargetOn(rid, LocalDate(now_utc)) <= now_utc =>
                /\ Attempts(rid, LocalDate(now_utc)) >= 1
                /\ hist.crashes = 0 => Attempts(rid, LocalDate(now_utc)) = 1
                /\ recurring[rid].last_sent_local_date = LocalDate(now_utc)

\* C9 witness: the first tick of the day ran more than an hour after the target,
\* and has delivered the alarm for that day.
C9_Witness ==
    /\ pc = "final_commit"
    /\ 1 \in DOMAIN txn_rec
    /\ Attempts(1, LocalDate(now_utc)) = 1
    /\ now_utc - TargetOn(1, LocalDate(now_utc)) > MinutesPerHour * SecondsPerMinute

\* what alarm_cancel(alarm_id) from c may delete
Cancellable(c, alarm_id) ==
    /\ alarm_id \in DOMAIN alarms
    /\ alarms[alarm_id].guild_id = c.guild_id
    /\ alarms[alarm_id].user_id = c.user_id
    /\ alarms[alarm_id].sent = 0

\* C10: alarm_cancel reports success exactly when the id exists, belongs to the
\* caller's guild and user and is unsent, and then removes that row only;
\* otherwise it leaves the table alarms as it was; it never touches
\* recurring_alarms.
C10_CancelAuthorizationAndFrame ==
    [][\A c \in Callers, id \in 1..MaxOnce :
          alarm_cancel(c, id) =>
              /\ reply'.ok <=> Cancellable(c, id)
              /\ Cancellable(c, id) => alarms' = Drop(alarms, {id})
              /\ ~Cancellable(c, id) => alarms' = alarms
              /\ recurring' = recurring]_vars

\* C10 witness: a cancel of an alarm that was already sent reported failure.
C10_Witness ==
    /\ reply.cmd = "alarm_cancel"
    /\ ~reply.ok
    /\ reply.id \in DOMAIN alarms
    /\ alarms[reply.id].sent = 1

\* the context a recurring alarm was registered from
OwnerOf(rid) ==
    [guild_id |-> recurring[rid].guild_id, channel_id |-> recurring[rid].channel_id,
     user_id |-> recurring[rid].user_id]

\* C11: every enabled recurring alarm, whatever its (hour, minute), is one that
\* the disable command of its owner, invoked from its guild and channel, switches
\* off.
C11_EveryEnabledAlarmCanBeDisabled ==
    \A rid \in DOMAIN recurring :
        recurring[rid].enabled = 1 => rid \in Daily20Matches(OwnerOf(rid))

\* the enabled 20:00 rows of the caller's guild and user, in any channel
SharingDaily20(c) ==
    { id \in DOMAIN recurring :
        /\ recurring[id].guild_id = c.guild_id
        /\ recurring[id].user_id = c.user_id
        /\ recurring[id].at_hour = DailyHour
        /\ recurring[id].at_minute = DailyMinute
        /\ recurring[id].enabled = 1 }

\* C12 (as claimed): one alarm_daily20_cancel switches off every enabled 20:00
\* alarm of the caller's guild and user, and reports success when there is one.
C12_DisablesAllOfGuildAndUser ==
    [][\A c \in Callers :
          alarm_daily20_cancel(c) =>
              /\ \A id \in SharingDaily20(c) : recurring'[id].enabled = 0
              /\ reply'.ok <=> SharingDaily20(c) # {}]_vars

\* C12 (amended): one alarm_daily20_cancel switches off every enabled 20:00
\* alarm of the caller's guild, user and channel, reports success exactly when
\* there is one, and leaves every other row, those of the caller's other
\* channels included, as it was.
C12_DisablesAllOfGuildChannelAndUser ==
    [][\A c \in Callers :
          alarm_daily20_cancel(c) =>
              /\ DOMAIN recurring' = DOMAIN recurring
              /\ \A id \in DOMAIN recurring :
                    IF id \in SharingDaily20(c) /\ recurring[id].channel_id = c.channel_id
                    THEN recurring'[id] = [recurring[id] EXCEPT !.enabled = 0]
                    ELSE recurring'[id] = recurring[id]
              /\ reply'.ok <=>
                    \E id \in SharingDaily20(c) : recurring[id].channel_id = c.channel_id
              /\ reply'.id = Cardinality({ id \in SharingDaily20(c) :
                                             recurring[id].channel_id = c.channel_id })]_vars

\* C12 witness: one call has switched off two 20:00 alarms of one channel.
C12_Witness ==
    /\ reply = Reply("alarm_daily20_cancel", TRUE, 2)
    /\ \A id \in 1..2 :
          /\ id \in DOMAIN recurring
          /\ recurring[id].enabled = 0
          /\ recurring[id].channel_id = recurring[1].channel_id

\* a command was refused and neither table was written
Refused ==
    /\ ~reply'.ok
    /\ alarms' = alarms /\ alarms_seq' = alarms_seq
    /\ recurring' = recurring /\ recurring_seq' = recurring_seq

\* C13: alarm_in with minutes <= 0, alarm_at with a string that is not a date and
\* a time of day or with an instant not after the clock, and
\* alarm_daily_everyone with a string that is not hour:minute or with an hour
\* outside 0..23 or a minute outside 0..59, are refused and leave alarms and
\* recurring_alarms as they were.
C13_ValidationErrorsChangeNothing ==
    [][/\ \A m \in MinutesArgs, msg \in Messages :
             (m <= 0 /\ alarm_in(Owner, m, msg)) => Refused
       /\ \A w \in WhenArgs, msg \in Messages :
             ((Len(w) # 3 \/ w[2] \notin 0..23 \/ w[3] \notin 0..59 \/ At(w[1], (w[2] * 60 + w[3]) * 60) <= now)
                 /\ alarm_at(Owner, w, msg)) => Refused
       /\ \A p \in Perms, t \in TimeArgs, msg \in Messages :
             ((Len(t) # 2 \/ t[1] \notin 0..23 \/ t[2] \notin 0..59)
                 /\ alarm_daily_everyone(Owner, p, t, msg)) => Refused]_vars

\* C13 witness: with rows in both tables, an alarm_at was refused; the tables
\* hold what they held.
C13_Witness ==
    /\ reply = Reply("alarm_at", FALSE, 0)
    /\ DOMAIN alarms = 1..1 /\ alarms_seq = 1
    /\ DOMAIN recurring = 1..1 /\ recurring_seq = 1

\* C14: in every step, a row of alarms with sent = 1 stays as it is (it is not
\* deleted and sent does not go back to 0); a row that stays keeps everything
\* but sent, which only grows; an id handed out and no longer in the table
\* (cancelled) does not come back; and a new row gets an id above every id
\* handed out before, with sent = 0.  A cancelled id is never in the table, so
\* never marked.
C14_OneShotStateMachine ==
    [][/\ \A id \in DOMAIN alarms :
             /\ alarms[id].sent = 1 => (id \in DOMAIN alarms' /\ alarms'[id] = alarms[id])
             /\ id \in DOMAIN alarms' =>
                    /\ alarms'[id].sent >= alarms[id].sent
                    /\ [alarms'[id] EXCEPT !.sent = 0] = [alarms[id] EXCEPT !.sent = 0]
       /\ \A id \in (1..alarms_seq) \ DOMAIN alarms : id \notin DOMAIN alarms'
       /\ \A id \in DOMAIN alarms' \ DOMAIN alarms :
             id > alarms_seq /\ alarms'[id].sent = 0
       /\ alarms_seq' >= alarms_seq
       /\ hist.cancelled \subseteq hist'.cancelled
       /\ hist'.cancelled \cap DOMAIN alarms' = {}]_vars

\* C14 witness: alarm 1 was cancelled, alarm 2 was registered after that and a
\* tick has marked it: 1 has not come back and 2 is fired.
C14_Witness ==
    /\ hist.cancelled = {1}
    /\ DOMAIN alarms = {2}
    /\ alarms[2].sent = 1
    /\ reply.cmd = "alarm_cancel" /\ ~reply.ok /\ reply.id = 2

\* C15: once an alarm_cancel of id has reported success, and until another
\* command answers, no row with that id is left for any caller to cancel; and an
\* alarm_cancel of the same id that follows, by the same or any other caller and
\* whatever the tick did in between, reports failure and leaves the table
\* alarms as it is.
C15_CancelIdempotent ==
    /\ [](\A id \in 1..MaxOnce :
             reply = Reply("alarm_cancel", TRUE, id) => id \notin DOMAIN alarms)
    /\ [][\A c \in Callers, id \in 1..MaxOnce :
             (reply = Reply("alarm_cancel", TRUE, id) /\ alarm_cancel(c, id)) =>
                 /\ reply' = Reply("alarm_cancel", FALSE, id)
                 /\ alarms' = alarms]_vars

\* C15 witness: the cancel of an id that an earlier cancel removed has reported
\* failure, while the other alarm is still pending.
C15_Witness ==
    /\ reply = Reply("alarm_cancel", FALSE, 1)
    /\ 1 \in hist.cancelled
    /\ DOMAIN alarms = {2}
    /\ alarms[2].sent = 0

\* C16: a tick sends a recurring alarm, and writes its last_sent_local_date,
\* only while the row is enabled: never after an alarm_daily20_cancel that
\* switched it off has committed.
C16_NoDeliveryAfterDisable ==
    [][/\ \A o \in Outcomes : RecSend(o) => recurring[rrows[k].rid].enabled = 1
       /\ RecMark => recurring[rrows[k].rid].enabled = 1
       /\ FinalCommit => \A rid \in DOMAIN txn_rec : recurring[rid].enabled = 1]_vars

\* C17: a one-shot alarm is in to_send_once, sent or marked only when its run_at
\* is at or before the tick's now_utc; a recurring alarm is sent or marked for a
\* date only by a tick whose now_utc is at or after its target of that date
\* and that read a last_sent_local_date other than that date; a tick reads into
\* rrows only rows that are enabled when it reads them; so nothing is delivered
\* or marked while the clock is before its scheduled time.
C17_NoEarlyDelivery ==
    /\ [](/\ OncePhase => \A id \in SelectedIds : alarms[id].run_at <= now_utc
          /\ \A id \in DOMAIN alarms :
                (sends[id] >= 1 \/ alarms[id].sent = 1 \/ id \in txn_once)
                    => (alarms[id].run_at <= now_utc /\ alarms[id].run_at <= now)
          /\ pc \in {"rec_send", "rec_mark"} =>
                /\ rrows[k].last_sent # LocalDate(now_utc)
                /\ TargetOn(rrows[k].rid, LocalDate(now_utc)) <= now_utc
          /\ \A rid \in DOMAIN txn_rec :
                txn_rec[rid] = LocalDate(now_utc) /\ TargetOn(rid, txn_rec[rid]) <= now_utc
          /\ \A key \in DOMAIN rsends : TargetOn(key[1], key[2]) <= now
          /\ \A rid \in DOMAIN recurring :
                recurring[rid].last_sent_local_date # NoDate =>
                    TargetOn(rid, recurring[rid].last_sent_local_date) <= now)
    /\ [][RecSelect => \A n \in 1..Len(rrows') : recurring[rrows'[n].rid].enabled = 1]_vars

\* C17 witness: a tick that ran before the run_at of alarm 2 and at the target
\* of the recurring alarm has sent alarm 1 and the recurring alarm, and not
\* alarm 2.
C17_Witness ==
    /\ pc = "sleep"
    /\ sends = <<1, 0>>
    /\ alarms[2].run_at > now_utc
    /\ Attempts(1, LocalDate(now_utc)) = 1
    /\ now_utc = TargetOn(1, LocalDate(now_utc))

\* C18: a delivery pings all members only when it is the delivery of a
\* recurring alarm stored with ping_everyone = 1; a one-shot delivery and a
\* recurring delivery with ping_everyone = 0 do not, whatever the message says.
C18_EveryoneOnlyWhenStored ==
    /\ (last.kind = "once" /\ last.outcome = "ok") => ~PingsEveryone(last)
    /\ (last.kind = "recurring" /\ last.outcome = "ok") =>
          (PingsEveryone(last) <=> recurring[last.rid].ping_everyone = 1)

\* the ids the tick holds in rrows
ReadIds == { rrows[n].rid : n \in 1..Len(rrows) }
\* the lines of alarm_daily_list for the owner of row rid that show rid
ListedAs(rid) ==
    { n \in 1..Len(alarm_daily_list(OwnerOf(rid))) :
        alarm_daily_list(OwnerOf(rid))[n].rid = rid }

\* C19: no step removes a row of recurring_alarms or changes anything of it but
\* enabled and last_sent_local_date; enabled never goes from 0 to 1; a tick that
\* reads rrows reads no row that is disabled at that time; and every row,
\* disabled ones included, is on one line of its owner's alarm_daily_list, as
\* OFF when disabled.
C19_RecurringOnlySwitchedOff ==
    /\ [](\A rid \in DOMAIN recurring :
             /\ Cardinality(ListedAs(rid)) = 1
             /\ \A n \in ListedAs(rid) :
                   alarm_daily_list(OwnerOf(rid))[n].status =
                       (IF recurring[rid].enabled = 0 THEN "OFF" ELSE "ON"))
    /\ [][/\ \A rid \in DOMAIN recurring :
               /\ rid \in DOMAIN recurring'
               /\ recurring[rid].enabled = 0 => recurring'[rid].enabled = 0
               /\ [recurring'[rid] EXCEPT !.enabled = 0, !.last_sent_local_date = NoDate]
                     = [recurring[rid] EXCEPT !.enabled = 0, !.last_sent_local_date = NoDate]
          /\ RecSelect =>
                \A rid \in DOMAIN recurring :
                    recurring[rid].enabled = 0 => rid \notin { rrows'[n].rid : n \in 1..Len(rrows') }]_vars

\* C19 witness: alarm 1 is disabled and alarm 2 is not; a tick that started
\* after that has read alarm 2 only, and alarm 1 is still listed, as OFF.
C19_Witness ==
    /\ DOMAIN recurring = {1, 2}
    /\ recurring[1].enabled = 0
    /\ recurring[2].enabled = 1
    /\ pc = "final_commit"
    /\ ReadIds = {2}
    /\ \E n \in ListedAs(1) : alarm_daily_list(OwnerOf(1))[n].status = "OFF"

\* C20: when every recurring alarm is registered after its target of the day:
\* a row that no tick has sent has no last_sent_local_date; a tick that read
\* the row (so started its read after the registration), with a clock reading
\* at or after the row's target of its date, has, once it returned, sent the
\* alarm once for that date and marked that date; and a send for any date is
\* by a tick at or after the target of that date, at most once per date.
C20_LateRegistrationFiresSameDay ==
    /\ \A rid \in DOMAIN recurring :
          (\A d \in 1..MaxDay : Attempts(rid, d) = 0) =>
              recurring[rid].last_sent_local_date = NoDate
    /\ pc = "sleep" =>
          \A rid \in ReadIds :
              TargetOn(rid, LocalDate(now_utc)) <= now_utc =>
                  /\ Attempts(rid, LocalDate(now_utc)) = 1
                  /\ recurring[rid].last_sent_local_date = LocalDate(now_utc)
    /\ pc \in {"rec_send", "rec_mark"} =>
          TargetOn(rrows[k].rid, LocalDate(now_utc)) <= now_utc
    /\ \A key \in DOMAIN rsends : rsends[key] <= 1

\* C20 witness: alarm 1, registered on day 1 after its target, was sent on day 1
\* and again on day 2, and is marked for day 2.
C20_Witness ==
    /\ 1 \in DOMAIN recurring
    /\ Attempts(1, 1) = 1
    /\ Attempts(1, 2) = 1
    /\ recurring[1].last_sent_local_date = 2
    /\ pc = "sleep"

====
